---- MODULE Spec2Model ----
(***************************************************************************)
(* Capacity planning endpoints of the Jira timesheet server:               *)
(*   GET  /api/capacity         probing loop, aggregation, Excel baseline  *)
(*   POST /api/capacity/upload  multer temp file, validation, rename       *)
(* Strings are sequences of one-character strings, so that template        *)
(* literals, padStart, startsWith, replace and extname are computed.       *)
(***************************************************************************)
EXTENDS Integers, Sequences, FiniteSets, TLC

VARIABLES
    files,            \* example_files/: file name -> content (a workbook)
    rpc,              \* GET /api/capacity: "idle", "probing", "done"
    pi,               \* req.query.pi of the report request
    iterationNum,     \* let iterationNum
    keepFetching,     \* let keepFetching
    allIssues,        \* const allIssues (tagged issues, in push order)
    iterationsFound,  \* const iterationsFound
    queries,          \* log: sprint names of the searches sent to Jira, in order
    outcomes,         \* log: how each search came back and the issues it returned
    res,              \* the response of GET /api/capacity
    up,               \* POST /api/capacity/upload: per request slot, its state
    uplog,            \* log: the upload requests answered, in the order answered
    merged            \* the CapacityReport the Merger makes of the response

vars == <<files, rpc, pi, iterationNum, keepFetching, allIssues,
          iterationsFound, queries, outcomes, res, up, uplog, merged>>

reportVars == <<rpc, pi, iterationNum, keepFetching, allIssues,
                iterationsFound, queries, outcomes, res, merged>>

----------------------------------------------------------------------------
(* Bounds of the model *)

\* searches whose answer is drawn freely from IssueLists; later ones return TailList
MaxVaried == 2
\* data rows below the header row of a generated worksheet
MaxRows == 2
\* upload requests of one behaviour
MaxUploads == 3

----------------------------------------------------------------------------
(* Strings *)

Range(s) == {s[i] : i \in DOMAIN s}

Digits == <<"0", "1", "2", "3", "4", "5", "6", "7", "8", "9">>

\* UTF-16 code unit order of the characters the model uses
CodeOrder ==
    <<".", "0", "1", "2", "3", "4", "5", "6", "7", "8", "9",
      "A", "B", "C", "I", "L", "N", "P", "S", "T", "U", "X", "_",
      "a", "b", "c", "d", "e", "g", "i", "l", "m", "n", "o", "p", "s", "t", "x">>

Code(c) == CHOOSE i \in DOMAIN CodeOrder : CodeOrder[i] = c

RECURSIVE StrLess(_, _)
\* a < b as Array.prototype.sort() compares strings
StrLess(a, b) ==
    IF b = <<>> THEN FALSE
    ELSE IF a = <<>> THEN TRUE
    ELSE IF Head(a) # Head(b) THEN Code(Head(a)) < Code(Head(b))
    ELSE StrLess(Tail(a), Tail(b))

\* seq.forEach over the elements lo..hi, threading the accumulator
FoldBlock(Op(_, _), acc, seq, lo, hi) ==
    LET H[k \in (lo - 1)..hi] == IF k = lo - 1 THEN acc ELSE Op(H[k - 1], seq[k])
    IN  H[hi]

\* seq.forEach(e => acc = Op(acc, e)), in index order; folded block by block
\* of 8 elements, each block starting from the value the one before it left
\* (the test prev = prev has that value computed first)
FoldSeq(Op(_, _), acc, seq) ==
    LET nb == (Len(seq) + 7) \div 8
        G[b \in 0..nb] ==
            IF b = 0 THEN acc
            ELSE LET prev == G[b - 1]
                 IN  IF prev = prev
                     THEN FoldBlock(Op, prev, seq, 8 * (b - 1) + 1,
                                    IF 8 * b < Len(seq) THEN 8 * b ELSE Len(seq))
                     ELSE prev
    IN  G[nb]

\* the sorted sequence s with the string a put after the strings less than it
InsertSorted(s, a) ==
    LET p == Cardinality({i \in DOMAIN s : StrLess(s[i], a)})
    IN  SubSeq(s, 1, p) \o <<a>> \o SubSeq(s, p + 1, Len(s))

\* array.sort() of an array of distinct strings: ascending code unit order
SortStrings(q) == FoldSeq(InsertSorted, <<>>, q)

\* SetAdd on an array instead of a Set
SetAddAlways(q, a) == Append(q, a)

\* set.add(a) on a Set kept as the sequence of its elements in insertion order
SetAdd(q, a) == IF a \in Range(q) THEN q ELSE Append(q, a)

\* String(n) for 0 <= n <= 99
NumToString(n) ==
    IF n < 10 THEN <<Digits[n + 1]>>
    ELSE <<Digits[(n \div 10) + 1], Digits[(n % 10) + 1]>>

RECURSIVE PadStart(_, _, _)
\* s.padStart(len, c)
PadStart(s, len, c) == IF Len(s) >= len THEN s ELSE PadStart(<<c>> \o s, len, c)

\* s.startsWith(p)
StartsWith(s, p) == Len(s) >= Len(p) /\ SubSeq(s, 1, Len(p)) = p

\* s.replace(/^p/, '')
StripPrefix(s, p) == IF StartsWith(s, p) THEN SubSeq(s, Len(p) + 1, Len(s)) ELSE s

\* s.replace(c, ''): removes the first occurrence of the character c
RemoveFirst(s, c) ==
    IF c \notin Range(s) THEN s
    ELSE LET i == CHOOSE j \in DOMAIN s : s[j] = c /\ \A k \in 1..(j - 1) : s[k] # c
         IN  SubSeq(s, 1, i - 1) \o SubSeq(s, i + 1, Len(s))

\* path.extname(name) for a name without directory separators
Extname(name) ==
    IF "." \notin Range(name) THEN <<>>
    ELSE LET i == CHOOSE j \in DOMAIN name :
                      name[j] = "." /\ \A k \in (j + 1)..Len(name) : name[k] # "."
         IN  IF i = 1 \/ (i = 2 /\ Len(name) = 2 /\ name[1] = ".") THEN <<>>
             ELSE SubSeq(name, i, Len(name))

\* the characters of a literal
S_PI == <<"P", "I">>
S_PI20 == <<"P", "I", "2", "0">>
S_CAPA == <<"C", "A", "P", "A">>
S_PLAN == <<"P", "L", "A", "N">>
S_PI_CAPA_ == <<"P", "I", "_", "C", "A", "P", "A", "_">>
S_20 == <<"2", "0">>
S_xlsx == <<".", "x", "l", "s", "x">>
S_temp_ == <<"t", "e", "m", "p", "_">>
S_Unassigned == <<"U", "n", "a", "s", "s", "i", "g", "n", "e", "d">>
S_Alice == <<"A", "l", "i", "c", "e">>
S_Bob == <<"B", "o", "b">>
S_Cid == <<"C", "i", "d">>
S_26_04 == <<"2", "6", "_", "0", "4">>

----------------------------------------------------------------------------
(* Worksheets: xlsx.utils.sheet_to_json(sheet, {header: 1}) *)

NullCell == [t |-> "null", s |-> <<>>, n |-> 0]
Str(s) == [t |-> "str", s |-> s, n |-> 0]
Num(n) == [t |-> "num", s |-> <<>>, n |-> n]

\* row[j] with JavaScript's 0-based index; undefined beyond the row's end
Cell(row, j) == IF j + 1 \in DOMAIN row THEN row[j + 1] ELSE NullCell

\* the value null of getCapacityFromExcel
NoBaseline == [isNull |-> TRUE, members |-> <<>>, capacity |-> <<>>]

\* obj[key] = value on an object modelled as a function
Put(obj, key, value) ==
    [k \in DOMAIN obj \cup {key} |-> IF k = key THEN value ELSE obj[k]]

----------------------------------------------------------------------------
(* getCapacityFromExcel *)

\* PossibleFilenames with the year-less name tried first
PossibleFilenamesShortFirst(p) ==
    << S_PI_CAPA_ \o p \o S_xlsx,
       S_PI_CAPA_ \o S_20 \o p \o S_xlsx,
       S_PI_CAPA_ \o S_20 \o RemoveFirst(p, "_") \o S_xlsx >>

\* possibleFilenames, in the order they are tried
PossibleFilenames(p) ==
    << S_PI_CAPA_ \o S_20 \o p \o S_xlsx,
       S_PI_CAPA_ \o p \o S_xlsx,
       S_PI_CAPA_ \o S_20 \o RemoveFirst(p, "_") \o S_xlsx >>

\* the first candidate that exists, '' when none does
FilePath(dir, p) ==
    LET names == PossibleFilenames(p)
        hits == {i \in DOMAIN names : names[i] \in DOMAIN dir}
    IN  IF hits = {} THEN <<>>
        ELSE names[CHOOSE i \in hits : \A j \in hits : i <= j]

\* data[0].slice(4).filter(name => name !== null && name !== undefined)
MembersList(row0) ==
    LET F[j \in 0..Len(row0)] ==
            IF j = 0 THEN <<>>
            ELSE IF j > 4 /\ row0[j].t # "null" THEN Append(F[j - 1], row0[j].s)
            ELSE F[j - 1]
    IN  F[Len(row0)]

\* the column read for membersList[idx] (idx 0-based) in a CAPA row
MemberColumn(membersList, idx) == idx + 4

\* the CAPA row's effect: capacityMap[name][currentIteration] = val * 3600
CapaRow(row, membersList, currentIteration, capacityMap) ==
    LET F[k \in 0..Len(membersList)] ==
            IF k = 0 THEN capacityMap
            ELSE LET name == membersList[k]
                     val == Cell(row, MemberColumn(membersList, k - 1))
                 IN  IF val.t = "num"
                     THEN Put(F[k - 1], name,
                              Put(F[k - 1][name], currentIteration, val.n * 3600))
                     ELSE F[k - 1]
    IN  F[Len(membersList)]

\* currentIteration = row[0].replace(/^PI20/, '').replace(/^PI/, '')
NormalizeIteration(s) == StripPrefix(StripPrefix(s, S_PI20), S_PI)

\* the state of the row loop after row i: currentIteration (<<>> is null) and capacityMap
ScanRows(data, membersList) ==
    LET F[i \in 0..Len(data)] ==
            IF i = 0
            THEN [currentIteration |-> <<>>,
                  capacityMap |-> [name \in Range(membersList) |-> <<>>]]
            ELSE LET row == data[i]
                     prev == F[i - 1]
                     cur == IF Cell(row, 0).t = "str" /\ StartsWith(Cell(row, 0).s, S_PI)
                            THEN NormalizeIteration(Cell(row, 0).s)
                            ELSE prev.currentIteration
                 IN  IF Len(row) = 0 THEN prev
                     ELSE [currentIteration |-> cur,
                           capacityMap |->
                               IF cur # <<>> /\ Cell(row, 1) = Str(S_CAPA)
                               THEN CapaRow(row, membersList, cur, prev.capacityMap)
                               ELSE prev.capacityMap]
    IN  F[Len(data)]

\* the parse of a workbook's first sheet
ParseSheet(data) ==
    IF Len(data) = 0 THEN NoBaseline
    ELSE LET membersList == MembersList(data[1])
         IN  [isNull |-> FALSE, members |-> membersList,
              capacity |-> ScanRows(data, membersList).capacityMap]

\* getCapacityFromExcel(pi) against the directory dir; a workbook that
\* xlsx.readFile cannot read throws, and the catch returns null
GetCapacityFromExcel(dir, p) ==
    LET filePath == FilePath(dir, p)
    IN  IF filePath = <<>> THEN NoBaseline
        ELSE IF dir[filePath].kind = "corrupt" THEN NoBaseline
        ELSE ParseSheet(dir[filePath].data)

\* LoaderThrows without the try/catch
LoaderThrowsUncaught(dir, p) ==
    FilePath(dir, p) # <<>> /\ dir[FilePath(dir, p)].kind = "corrupt"

\* whether an exception leaves getCapacityFromExcel: its whole body is inside
\* try { ... } catch (e) { ...; return null; }
LoaderThrows(dir, p) == FALSE

----------------------------------------------------------------------------
(* GET /api/capacity *)

\* Safety break: if (iterationNum > 50) keepFetching = false
MaxIterations == 50

\* SprintName without the zero padding
SprintNameUnpadded(p, n) == p \o <<"_">> \o NumToString(n)

\* `${pi}_${String(iterationNum).padStart(2, '0')}`
SprintName(p, n) == p \o <<"_">> \o PadStart(NumToString(n), 2, "0")

NoAssignee == [isNull |-> TRUE, displayName |-> <<>>, name |-> <<>>]
Assignee(displayName, name) ==
    [isNull |-> FALSE, displayName |-> displayName, name |-> name]

\* an issue of a search response; sprint is the issue's own sprint field
Issue(key, assignee, timeestimate, sprint) ==
    [key |-> key,
     fields |-> [assignee |-> assignee, timeestimate |-> timeestimate, sprint |-> sprint]]

\* issues.forEach(i => i._sprintName = sprintName)
Tag(issue, sprintName) ==
    [key |-> issue.key, fields |-> issue.fields, _sprintName |-> sprintName]

TagAll(issues, sprintName) == [i \in DOMAIN issues |-> Tag(issues[i], sprintName)]

\* assignee.displayName || assignee.name || 'Unassigned'
AssigneeName(assignee) ==
    IF assignee.displayName # <<>> THEN assignee.displayName
    ELSE IF assignee.name # <<>> THEN assignee.name
    ELSE S_Unassigned

\* issue.fields.timeestimate || 0
RemainingEstimate(issue) ==
    IF issue.fields.timeestimate.t = "num" THEN issue.fields.timeestimate.n ELSE 0

\* Skipped without the early return
NeverSkipped(issue) == FALSE

\* whether the forEach callback returns early: if (!assignee) return
Skipped(issue) == issue.fields.assignee.isNull

\* IssueSprint reading the issue's own sprint field
IssueOwnSprint(issue) == issue.fields.sprint

\* the iteration an issue is counted under: const sprintName = issue._sprintName
IssueSprint(issue) == issue._sprintName

\* AddIssue leaving out the issues that add nothing to the total
AddIssueSkippingZero(acc, issue) ==
    LET assigneeName == AssigneeName(issue.fields.assignee)
        sprintName == IssueSprint(issue)
        m0 == IF assigneeName \in DOMAIN acc.members
              THEN acc.members[assigneeName]
              ELSE [name |-> assigneeName, capacity |-> <<>>]
        c0 == IF sprintName \in DOMAIN m0.capacity THEN m0.capacity[sprintName] ELSE 0
    IN  IF Skipped(issue) \/ sprintName = <<>> \/ RemainingEstimate(issue) = 0 THEN acc
        ELSE [members |->
                  Put(acc.members, assigneeName,
                      [name |-> assigneeName,
                       capacity |-> Put(m0.capacity, sprintName,
                                        c0 + RemainingEstimate(issue))]),
              iterations |-> SetAdd(acc.iterations, sprintName)]

\* the forEach callback of lines 358-378 applied to one issue
AddIssue(acc, issue) ==
    LET assigneeName == AssigneeName(issue.fields.assignee)
        sprintName == IssueSprint(issue)
        m0 == IF assigneeName \in DOMAIN acc.members
              THEN acc.members[assigneeName]
              ELSE [name |-> assigneeName, capacity |-> <<>>]
        c0 == IF sprintName \in DOMAIN m0.capacity THEN m0.capacity[sprintName] ELSE 0
    IN  IF Skipped(issue) \/ sprintName = <<>> THEN acc
        ELSE [members |->
                  Put(acc.members, assigneeName,
                      [name |-> assigneeName,
                       capacity |-> Put(m0.capacity, sprintName,
                                        c0 + RemainingEstimate(issue))]),
              iterations |-> SetAdd(acc.iterations, sprintName)]

\* allIssues.forEach(issue => ...): members and iterations after the pass
Aggregate(issues) == FoldSeq(AddIssue, [members |-> <<>>, iterations |-> <<>>], issues)

\* a < b under a.localeCompare(b); the names of the model are ordered alike
\* by localeCompare and by code unit
LocaleLess(a, b) == StrLess(a, b)

\* Object.values(members).sort((a, b) => a.name.localeCompare(b.name))
MembersArray(members) ==
    LET names == DOMAIN members
    IN  [i \in 1..Cardinality(names) |->
            members[CHOOSE a \in names :
                        Cardinality({b \in names : LocaleLess(b, a)}) = i - 1]]

\* the iteration names the report lists: Array.from(iterations).sort()
ReportIterations(agg) == SortStrings(agg.iterations)

NoRes ==
    [status |-> 0, error |-> "", pi |-> <<>>, iterations |-> <<>>,
     members |-> <<>>, baselineCapacity |-> NoBaseline]

ErrorRes(status, error) == [NoRes EXCEPT !.status = status, !.error = error]

\* lines 355-395: aggregation, baseline, res.json, and the handler's catch
ReportRes(dir, p, issues) ==
    LET agg == Aggregate(issues)
    IN  IF LoaderThrows(dir, p) THEN ErrorRes(500, "Failed to fetch capacity data")
        ELSE [status |-> 200, error |-> "", pi |-> p,
              iterations |-> ReportIterations(agg),
              members |-> MembersArray(agg.members),
              baselineCapacity |-> GetCapacityFromExcel(dir, p)]

\* the request arrives; a missing or empty pi is answered 400, otherwise the
\* loop is entered and the search for iteration 1 is sent (line 327)
CapacityRequest(p) ==
    /\ rpc = "idle"
    /\ pi' = p
    /\ IF p = <<>>
       THEN /\ res' = ErrorRes(400, "PI name is required")
            /\ rpc' = "done"
            /\ UNCHANGED <<iterationNum, keepFetching, allIssues, iterationsFound,
                           queries, outcomes>>
       ELSE /\ allIssues' = <<>>
            /\ iterationsFound' = {}
            /\ iterationNum' = 1
            /\ keepFetching' = TRUE
            /\ queries' = <<SprintName(p, 1)>>
            /\ outcomes' = <<>>
            /\ rpc' = "probing"
            /\ UNCHANGED res
    /\ UNCHANGED <<files, up, uplog, merged>>

\* ContinueAfter with the break one iteration early
ContinueAfterOffByOne(n) == ~(n >= MaxIterations)

\* whether the loop goes on after a search that returned issues, iterationNum
\* already incremented: the safety break of line 352
ContinueAfter(n) == ~(n > MaxIterations)

\* OnNotOk answering like the handler's catch
OnNotOkAsError(dir, p, issues) == ErrorRes(500, "Failed to fetch capacity data")

\* what the handler does with a search that came back not OK: line 330-336
\* sets keepFetching = false and breaks, so the report is built
OnNotOk(dir, p, issues) == ReportRes(dir, p, issues)

\* OnThrow with the await wrapped in its own try/catch that ends the loop
OnThrowAsStop(dir, p, issues) == ReportRes(dir, p, issues)

\* what the handler does when fetchWithAgent or parseResponse rejects: the
\* await throws inside try, and the catch of line 392 answers 500
OnThrow(dir, p, issues) == ErrorRes(500, "Failed to fetch capacity data")

\* the awaited search settles: o is "issues" (OK, list non-empty), "empty"
\* (OK, no issues), "notok" (r.ok false, body read), "notok_badbody" (r.ok
\* false and parseResponse rejects on the body) or "throw" (fetchWithAgent
\* rejects: no response)
ProbeResponse(o, list) ==
    /\ rpc = "probing"
    /\ outcomes' = Append(outcomes, [o |-> o, issues |-> list])
    /\ LET sprintName == SprintName(pi, iterationNum)
       IN  CASE o \in {"throw", "notok_badbody"} ->
                 /\ res' = OnThrow(files, pi, allIssues)
                 /\ rpc' = "done"
                 /\ UNCHANGED <<iterationNum, keepFetching, allIssues,
                                iterationsFound, queries>>
             [] o = "notok" ->
                 /\ keepFetching' = FALSE
                 /\ res' = OnNotOk(files, pi, allIssues)
                 /\ rpc' = "done"
                 /\ UNCHANGED <<iterationNum, allIssues, iterationsFound, queries>>
             [] o = "empty" ->
                 /\ keepFetching' = FALSE
                 /\ res' = ReportRes(files, pi, allIssues)
                 /\ rpc' = "done"
                 /\ UNCHANGED <<iterationNum, allIssues, iterationsFound, queries>>
             [] o = "issues" ->
                 /\ allIssues' = allIssues \o TagAll(list, sprintName)
                 /\ iterationsFound' = iterationsFound \cup {sprintName}
                 /\ iterationNum' = iterationNum + 1
                 /\ IF ContinueAfter(iterationNum')
                    THEN /\ keepFetching' = TRUE
                         /\ queries' = Append(queries, SprintName(pi, iterationNum'))
                         /\ UNCHANGED <<res, rpc>>
                    ELSE /\ keepFetching' = FALSE
                         /\ res' = ReportRes(files, pi, allIssues')
                         /\ rpc' = "done"
                         /\ UNCHANGED queries
    /\ UNCHANGED <<files, pi, up, uplog, merged>>

----------------------------------------------------------------------------
(* Capacity Merger: the consumer of the response of GET /api/capacity *)

\* Fallback: a default of 80 hours per iteration
DefaultHours == 80

DefaultBaseline == DefaultHours * 3600

\* the baseline of (name, it): the Loader's value, the default when the
\* response has no baseline, no such member or no value for the iteration
BaselineOrDefault(baseline, name, it) ==
    IF baseline.isNull THEN DefaultBaseline
    ELSE IF name \notin DOMAIN baseline.capacity THEN DefaultBaseline
    ELSE IF it \notin DOMAIN baseline.capacity[name] THEN DefaultBaseline
    ELSE baseline.capacity[name][it]

\* planned / baseline as a fraction, for baseline > 0
Ratio(planned, baseline) == [num |-> planned, den |-> baseline]

\* ratio > num / den
RatioAbove(ratio, num, den) == ratio.num * den > num * ratio.den

\* Classify with red from the limit 1.05 on
ClassifyRedFromLimit(planned, baseline) ==
    IF baseline = 0 THEN (IF planned > 0 THEN "red" ELSE "normal")
    ELSE LET ratio == Ratio(planned, baseline)
         IN  IF ~RatioAbove([num |-> 105, den |-> 100], ratio.num, ratio.den) THEN "red"
             ELSE IF RatioAbove(ratio, 1, 1) THEN "yellow"
             ELSE "normal"

\* the band of planned against baseline: red above 1.05, yellow above 1.00
\* up to 1.05, normal otherwise; with baseline 0 no ratio is formed and the
\* entry is over capacity when anything is planned
Classify(planned, baseline) ==
    IF baseline = 0 THEN (IF planned > 0 THEN "red" ELSE "normal")
    ELSE LET ratio == Ratio(planned, baseline)
         IN  IF RatioAbove(ratio, 105, 100) THEN "red"
             ELSE IF RatioAbove(ratio, 1, 1) THEN "yellow"
             ELSE "normal"

\* the entry of one (member, iteration) pair of planned data
MergeEntry(baseline, name, it, planned) ==
    LET b == BaselineOrDefault(baseline, name, it)
    IN  [planned |-> planned, baseline |-> b, classification |-> Classify(planned, b)]

NoReport == [done |-> FALSE, iterations |-> <<>>, members |-> <<>>]

\* the merged view of a response: its iterations and members in their order,
\* and an entry for every pair of planned data
Merge(r) ==
    [done |-> TRUE,
     iterations |-> r.iterations,
     members |->
         [i \in DOMAIN r.members |->
             [name |-> r.members[i].name,
              entries |->
                  [it \in DOMAIN r.members[i].capacity |->
                      MergeEntry(r.baselineCapacity, r.members[i].name, it,
                                 r.members[i].capacity[it])]]]]

\* the response of a report request reaches the Merger
MergeReport ==
    /\ rpc = "done"
    /\ res.status = 200
    /\ ~merged.done
    /\ merged' = Merge(res)
    /\ UNCHANGED <<files, rpc, pi, iterationNum, keepFetching, allIssues,
                   iterationsFound, queries, outcomes, res, up, uplog>>

----------------------------------------------------------------------------
(* POST /api/capacity/upload *)

NoFile == [present |-> FALSE, originalname |-> <<>>, content |-> [kind |-> "none", data |-> <<>>]]
File(originalname, content) ==
    [present |-> TRUE, originalname |-> originalname, content |-> content]

\* fs.unlinkSync / the source side of fs.renameSync
Remove(dir, name) == [k \in DOMAIN dir \ {name} |-> dir[k]]

\* multer's filename callback: 'temp_' + file.originalname
TempName(originalname) == S_temp_ \o originalname

\* `PI_CAPA_20${pi}.xlsx`
NewFileName(p) == S_PI_CAPA_ \o S_20 \o p \o S_xlsx

IdleUpload ==
    [pc |-> "idle", pi |-> <<>>, file |-> NoFile, path |-> <<>>,
     status |-> 0, filename |-> <<>>, before |-> <<>>]

\* upload.single('file'): the multipart body is received and, when it has a
\* file part, multer writes it to example_files/temp_<originalname>; before
\* records the directory as the request found it
UploadReceive(u, p, file) ==
    /\ up[u].pc # "received"
    /\ Len(uplog) + Cardinality({v \in DOMAIN up : up[v].pc = "received"}) < MaxUploads
    /\ up' = [up EXCEPT ![u] =
                 [pc |-> "received", pi |-> p, file |-> file,
                  path |-> IF file.present THEN TempName(file.originalname) ELSE <<>>,
                  status |-> 0, filename |-> <<>>, before |-> files]]
    /\ files' = IF file.present
                THEN Put(files, TempName(file.originalname), file.content)
                ELSE files
    /\ UNCHANGED <<reportVars, uplog>>

\* the route handler, run once multer is done
UploadHandle(u) ==
    /\ up[u].pc = "received"
    /\ LET r == up[u]
           exists == r.path \in DOMAIN files
           done(status, filename) ==
               /\ up' = [up EXCEPT ![u].pc = "done", ![u].status = status,
                                   ![u].filename = filename]
               /\ uplog' = Append(uplog, [pi |-> r.pi, file |-> r.file,
                                          status |-> status, filename |-> filename])
       IN  IF r.pi = <<>>
           THEN /\ done(400, <<>>)
                /\ UNCHANGED files
           ELSE IF ~r.file.present
           THEN /\ done(400, <<>>)
                /\ UNCHANGED files
           ELSE IF Extname(r.file.originalname) # S_xlsx
           THEN IF exists
                THEN /\ files' = Remove(files, r.path)
                     /\ done(400, <<>>)
                ELSE \* unlinkSync throws ENOENT; the catch finds no file to remove
                     /\ done(500, <<>>)
                     /\ UNCHANGED files
           ELSE IF exists
                THEN /\ files' = Put(Remove(files, r.path), NewFileName(r.pi), files[r.path])
                     /\ done(200, NewFileName(r.pi))
                ELSE \* renameSync throws ENOENT; the catch finds no file to remove
                     /\ done(500, <<>>)
                     /\ UNCHANGED files
    /\ UNCHANGED reportVars

----------------------------------------------------------------------------
(* Inputs *)

S_26_04_09 == S_26_04 \o <<"_", "0", "9">>
S_PI2026_04_01 == S_PI20 \o S_26_04 \o <<"_", "0", "1">>
S_PI26_04_02 == S_PI \o S_26_04 \o <<"_", "0", "2">>
S_plan_xlsx == <<"p", "l", "a", "n">> \o S_xlsx
S_plan_txt == <<"p", "l", "a", "n", ".", "t", "x", "t">>
S_xlsx_bare == <<"x", "l", "s", "x">>
S_2604 == <<"2", "6", "0", "4">>

\* issues the tracker may return; each one's own sprint field names an
\* iteration no search of the model asks for
Issue1 == Issue(1, Assignee(S_Alice, <<>>), Num(3600), S_26_04_09)
Issue2 == Issue(2, Assignee(<<>>, S_Bob), NullCell, S_26_04_09)
Issue3 == Issue(3, NoAssignee, Num(7200), S_26_04_09)
Issue4 == Issue(4, Assignee(<<>>, <<>>), Num(1800), S_26_04_09)

IssueLists ==
    { <<Issue1, Issue2>>, <<Issue3>>, <<Issue4, Issue1, Issue3>> }

TailList == <<Issue1>>

Outcomes == {"issues", "empty", "notok", "notok_badbody", "throw"}

\* the lists a search for iteration n may return with outcome o
Answers(o, n) ==
    IF o # "issues" THEN {<<>>}
    ELSE IF n <= MaxVaried THEN IssueLists
    ELSE {TailList}

Corrupt == [kind |-> "corrupt", data |-> <<>>]
Sheet(data) == [kind |-> "sheet", data |-> data]

SheetA ==
    Sheet(<< <<NullCell, NullCell, NullCell, NullCell, Str(S_Alice), Str(S_Bob)>>,
             <<Str(S_PI2026_04_01), Str(S_CAPA), NullCell, NullCell, Num(8), Num(6)>>,
             <<Str(S_PI26_04_02), Str(S_PLAN), NullCell, NullCell, Num(1), Num(1)>>,
             <<NullCell, Str(S_CAPA), NullCell, NullCell, Num(4), NullCell>> >>)

SheetB ==
    Sheet(<< <<NullCell, NullCell, NullCell, NullCell, Str(S_Cid)>>,
             <<Str(S_PI2026_04_01), Str(S_CAPA), NullCell, NullCell, Num(5)>> >>)

EmptyDir == <<>>

\* directories a report request may find
ReportDirs ==
    { EmptyDir,
      Put(EmptyDir, NewFileName(S_26_04), SheetA),
      Put(EmptyDir, NewFileName(S_26_04), Corrupt) }

\* header rows and data rows of generated worksheets
HeaderRows ==
    { <<NullCell, NullCell, NullCell, NullCell, Str(S_Alice), Str(S_Bob), Str(S_Cid)>>,
      <<NullCell, NullCell, NullCell, NullCell, Str(S_Alice), NullCell, Str(S_Bob)>>,
      <<Str(S_Cid), NullCell, NullCell, NullCell, Str(S_Bob), Str(S_Alice)>>,
      <<>> }

MemberCells ==
    { <<Num(8), Num(6), Num(4)>>,
      <<NullCell, Num(2), Str(S_xlsx_bare)>>,
      <<Num(0), NullCell, NullCell>> }

DataRows ==
    { <<c0, c1, NullCell, NullCell>> \o m :
        c0 \in {NullCell, Str(S_PI2026_04_01), Str(S_PI26_04_02)},
        c1 \in {Str(S_CAPA), Str(S_PLAN)},
        m \in MemberCells } \cup { <<>> }

RECURSIVE RowSeqs(_)
\* the sequences of at most n data rows
RowSeqs(n) ==
    IF n = 0 THEN { <<>> }
    ELSE LET shorter == RowSeqs(n - 1)
         IN  shorter \cup { Append(rs, r) : rs \in {x \in shorter : Len(x) = n - 1},
                                            r \in DataRows }

GeneratedSheets == { Sheet(<<h>> \o rs) : h \in HeaderRows, rs \in RowSeqs(MaxRows) }

UploadPIs == { <<>>, S_26_04 }
UploadFiles ==
    { NoFile } \cup { File(n, c) : n \in {S_plan_xlsx, S_plan_txt, S_xlsx_bare},
                                  c \in {SheetA, SheetB} }

Uploads == {1, 2}

SheetC ==
    Sheet(<< <<NullCell, NullCell, NullCell, NullCell, Str(S_Alice)>>,
             <<Str(S_PI26_04_02), Str(S_CAPA), NullCell, NullCell, Num(1)>> >>)

S_other_xlsx == <<"o", "t", "h", "e", "r">> \o S_xlsx

\* the PI of the request in each slot when two requests are in flight together
ConcurrentPI == [u \in Uploads |-> IF u = 1 THEN S_26_04 ELSE S_2604]

\* valid file parts, under the same and under different original names
ConcurrentFiles ==
    { File(n, c) : n \in {S_plan_xlsx, S_other_xlsx}, c \in {SheetA, SheetB, SheetC} }

\* remaining estimates around the band limits of the baselines 3600, 28800
\* and 288000
PlannedValues ==
    { 0, 1, 3600, 3601, 3780, 3781, 28800, 28801, 29500, 30240, 30241, 30500,
      288000, 288001, 302400, 302401 }

\* the hours a worksheet declares for Alice
DeclaredHours == { 0, 1, 8 }

SheetOfHours(h) ==
    Sheet(<< <<NullCell, NullCell, NullCell, NullCell, Str(S_Alice)>>,
             <<Str(S_PI2026_04_01), Str(S_CAPA), NullCell, NullCell, Num(h)>> >>)

\* directories for the classification: no file, a roster without Alice, and
\* Alice with declared hours
ClassifyDirs ==
    { EmptyDir, Put(EmptyDir, NewFileName(S_26_04), SheetB) }
        \cup { Put(EmptyDir, NewFileName(S_26_04), SheetOfHours(h)) : h \in DeclaredHours }

S_2026_04 == S_20 \o S_26_04

\* PI names in the short and in the four-digit-year style
MarkerPIs == { S_26_04, S_2604, S_2026_04 }

\* sequence numbers of the iterations a worksheet names
MarkerNumbers == { 1, 2, 9, 10, 11, 50 }

\* a worksheet naming one iteration in column 0, with 8 hours for Alice
SheetOfMarker(marker) ==
    Sheet(<< <<NullCell, NullCell, NullCell, NullCell, Str(S_Alice)>>,
             <<Str(marker), Str(S_CAPA), NullCell, NullCell, Num(8)>> >>)

\* directories holding, for one PI p, a worksheet whose iteration row is
\* PI20 or PI followed by an iteration name of p
MarkerDirs ==
    { Put(EmptyDir, NewFileName(p), SheetOfMarker(prefix \o SprintName(p, n))) :
        p \in MarkerPIs, n \in MarkerNumbers, prefix \in {S_PI20, S_PI} }

\* PI names of the requests against the stored baselines: PI_CAPA_202604.xlsx
\* is the file an upload for 2604 is stored as and the third name tried for 26_04
StorePIs == { S_26_04, S_2604 }

StoreFiles ==
    { File(S_plan_xlsx, SheetA), File(S_plan_xlsx, SheetB),
      File(S_plan_xlsx, Corrupt), File(S_plan_txt, SheetA) }

\* example_files/ as the server may find it at start: empty, or holding files
\* put there by hand under the year-less name for 26_04
StoreDirs ==
    { EmptyDir,
      Put(EmptyDir, S_PI_CAPA_ \o S_26_04 \o S_xlsx, SheetC) }

----------------------------------------------------------------------------
(* Specifications *)

InitRequest ==
    /\ rpc = "idle"
    /\ pi = <<>>
    /\ iterationNum = 1
    /\ keepFetching = TRUE
    /\ allIssues = <<>>
    /\ iterationsFound = {}
    /\ queries = <<>>
    /\ outcomes = <<>>
    /\ res = NoRes
    /\ up = [u \in Uploads |-> IdleUpload]
    /\ uplog = <<>>
    /\ merged = NoReport

\* report requests against a directory that does not change meanwhile
Init ==
    /\ files \in ReportDirs
    /\ InitRequest

Next ==
    \/ \E p \in {<<>>, S_26_04} : CapacityRequest(p)
    \/ \E o \in Outcomes : \E list \in Answers(o, iterationNum) : ProbeResponse(o, list)
    \/ MergeReport

Spec == Init /\ [][Next]_vars

\* report requests for PI 26_04 whose baseline is a generated worksheet
InitLoader ==
    /\ files \in { Put(EmptyDir, NewFileName(S_26_04), sheet) : sheet \in GeneratedSheets }
    /\ InitRequest

NextLoader ==
    \/ CapacityRequest(S_26_04)
    \/ \E o \in {"empty", "notok"} : ProbeResponse(o, <<>>)

SpecLoader == InitLoader /\ [][NextLoader]_vars

\* upload requests, one at a time, into a directory that starts empty
InitUpload ==
    /\ files = EmptyDir
    /\ InitRequest

NextUpload ==
    \/ \E p \in UploadPIs, file \in UploadFiles :
           /\ \A u \in Uploads : up[u].pc # "received"
           /\ UploadReceive(1, p, file)
    \/ \E u \in Uploads : UploadHandle(u)

SpecUpload == InitUpload /\ [][NextUpload]_vars

\* upload requests, one at a time, and a report request at any moment
InitStore ==
    /\ files \in StoreDirs
    /\ InitRequest

NextStore ==
    \/ \E p \in StorePIs, file \in StoreFiles :
           /\ \A u \in Uploads : up[u].pc # "received"
           /\ UploadReceive(1, p, file)
    \/ UploadHandle(1)
    \/ \E p \in StorePIs : CapacityRequest(p)
    \/ \E o \in {"empty", "notok"} : ProbeResponse(o, <<>>)

SpecStore == InitStore /\ [][NextStore]_vars

\* a report for 26_04 whose first iteration has one issue of Alice's, merged
InitClassify ==
    /\ files \in ClassifyDirs
    /\ InitRequest

NextClassify ==
    \/ CapacityRequest(S_26_04)
    \/ \E n \in PlannedValues :
           /\ iterationNum = 1
           /\ ProbeResponse("issues", <<Issue(1, Assignee(S_Alice, <<>>), Num(n), S_26_04_09)>>)
    \/ iterationNum = 2 /\ ProbeResponse("empty", <<>>)
    \/ MergeReport

SpecClassify == InitClassify /\ [][NextClassify]_vars

\* two upload requests for different PIs, one per slot, in flight together:
\* multer finishes writing each temp file at some moment, and each handler
\* runs at some later moment
InitConcurrent ==
    /\ files = EmptyDir
    /\ InitRequest

NextConcurrent ==
    \/ \E u \in Uploads, file \in ConcurrentFiles :
           /\ up[u].pc = "idle"
           /\ UploadReceive(u, ConcurrentPI[u], file)
    \/ \E u \in Uploads : UploadHandle(u)

SpecConcurrent == InitConcurrent /\ [][NextConcurrent]_vars

\* report requests against a worksheet that names an iteration of its PI
InitMarker ==
    /\ files \in MarkerDirs
    /\ InitRequest

NextMarker ==
    \/ \E p \in MarkerPIs : CapacityRequest(p)
    \/ \E o \in {"empty", "notok"} : ProbeResponse(o, <<>>)

SpecMarker == InitMarker /\ [][NextMarker]_vars

----------------------------------------------------------------------------
(* What the logs say, for the properties below *)

\* <pi>_<NN> written out for 1 <= n <= 99
ExpectedName(p, n) == p \o <<"_", Digits[(n \div 10) + 1], Digits[(n % 10) + 1]>>

NamesUpTo(p, k) == {ExpectedName(p, n) : n \in 1..k}
NameSeqUpTo(p, k) == [n \in 1..k |-> ExpectedName(p, n)]

Finished == rpc = "done" /\ pi # <<>>
LastOutcome == outcomes[Len(outcomes)].o
Reported == Finished /\ res.status = 200

Assigned(issue) == ~issue.fields.assignee.isNull

\* the member an assigned issue belongs to
LogMember(issue) ==
    LET a == issue.fields.assignee
    IN  IF a.displayName # <<>> THEN a.displayName
        ELSE IF a.name # <<>> THEN a.name ELSE S_Unassigned

LogEstimate(issue) ==
    IF issue.fields.timeestimate.t = "num" THEN issue.fields.timeestimate.n ELSE 0

RECURSIVE SumOver(_, _)
\* the estimates of member m's issues in a returned list
SumOver(list, m) ==
    IF list = <<>> THEN 0
    ELSE (IF Assigned(Head(list)) /\ LogMember(Head(list)) = m
          THEN LogEstimate(Head(list)) ELSE 0) + SumOver(Tail(list), m)

RECURSIVE SumQueries(_, _)
SumQueries(I, m) ==
    IF I = {} THEN 0
    ELSE LET i == CHOOSE j \in I : TRUE
         IN  SumOver(outcomes[i].issues, m) + SumQueries(I \ {i}, m)

\* the remaining estimate of m's issues returned by the searches for iteration it
LogPlanned(m, it) == SumQueries({i \in DOMAIN outcomes : queries[i] = it}, m)

\* the (member, iteration) pairs with an assigned issue returned
LogAssignedPairs ==
    UNION { { <<LogMember(outcomes[i].issues[j]), queries[i]>> :
                j \in {k \in DOMAIN outcomes[i].issues : Assigned(outcomes[i].issues[k])} } :
            i \in DOMAIN outcomes }

LogAssignedIterations == { pr[2] : pr \in LogAssignedPairs }
LogObservedIterations == { queries[i] : i \in {j \in DOMAIN outcomes : outcomes[j].o = "issues"} }

ReportPairs ==
    { <<res.members[i].name, it>> :
        <<i, it>> \in { x \in (DOMAIN res.members) \X Range(res.iterations) :
                           x[2] \in DOMAIN res.members[x[1]].capacity } }

\* the report's planned totals are those of the log
PlannedMatchesLog ==
    /\ \A i \in DOMAIN res.members :
          /\ DOMAIN res.members[i].capacity \subseteq Range(res.iterations)
          /\ \A it \in DOMAIN res.members[i].capacity :
                res.members[i].capacity[it] = LogPlanned(res.members[i].name, it)
    /\ ReportPairs = LogAssignedPairs

\* the names of NameSeqUpTo(pi, k) that had an assigned issue, in order
AssignedSeqUpTo(k) ==
    LET Test(n) == n \in LogAssignedIterations
    IN  SelectSeq(NameSeqUpTo(pi, k), Test)

\* the searches are for <pi>_01, <pi>_02, ... in order, each sent only after
\* the one before it returned issues
ProbedInOrder ==
    /\ \A i \in DOMAIN queries : queries[i] = ExpectedName(pi, i)
    /\ Len(queries) = Len(outcomes) + (IF rpc = "probing" THEN 1 ELSE 0)
    /\ \A i \in DOMAIN outcomes :
          i < Len(queries) => outcomes[i].o = "issues" /\ Len(outcomes[i].issues) >= 1

----------------------------------------------------------------------------
(* Properties of GET /api/capacity, checked under Spec *)

\* C1 as stated: the searches go 1, 2, 3, ... in order, each after the one
\* before returned issues; when <pi>_01..<pi>_k return issues and <pi>_(k+1)
\* returns none, the report covers exactly <pi>_01..<pi>_k and the search
\* for <pi>_(k+1) is the last one sent.
C1_AsStated ==
    /\ ProbedInOrder
    /\ (Finished /\ LastOutcome = "empty") =>
          /\ res.status = 200
          /\ Len(queries) = Len(outcomes)
          /\ res.iterations = NameSeqUpTo(pi, Len(outcomes) - 1)

\* C1 amended: as C1, but it is the Prober that records exactly
\* <pi>_01..<pi>_k (iterationsFound and the tags of allIssues); the report
\* lists those of them in which a returned issue has an assignee.
C1_ProbeOrderAndStop ==
    /\ ProbedInOrder
    /\ (Finished /\ LastOutcome = "empty") =>
          LET k == Len(outcomes) - 1
          IN  /\ res.status = 200
              /\ Len(queries) = k + 1
              /\ queries[k + 1] = ExpectedName(pi, k + 1)
              /\ iterationsFound = NamesUpTo(pi, k)
              /\ {allIssues[i]._sprintName : i \in DOMAIN allIssues} = NamesUpTo(pi, k)
              /\ res.iterations = AssignedSeqUpTo(k)

\* five iterations returned issues, the sixth none, and the report was sent
C1_Witness ==
    /\ Finished /\ Len(outcomes) = 6 /\ LastOutcome = "empty"
    /\ res.status = 200 /\ Len(res.iterations) = 5

C4_Bounded ==
    /\ Len(queries) <= 50
    /\ \A i \in DOMAIN queries : queries[i] \in NamesUpTo(pi, 50)
    /\ rpc = "probing" => Len(outcomes) < 50 /\ Len(queries) = Len(outcomes) + 1
    /\ (Finished /\ \A i \in DOMAIN outcomes : outcomes[i].o = "issues") =>
          /\ res.status = 200
          /\ Len(outcomes) = 50 /\ Len(queries) = 50
          /\ iterationsFound = NamesUpTo(pi, 50)

\* all 50 searches returned issues and the report was sent
C4_Witness ==
    /\ Finished /\ Len(outcomes) = 50 /\ LastOutcome = "issues"
    /\ res.status = 200 /\ Cardinality(iterationsFound) = 50

C6_UnassignedExcluded ==
    Reported =>
        /\ ReportPairs \subseteq LogAssignedPairs
        /\ {res.members[i].name : i \in DOMAIN res.members} =
               {pr[1] : pr \in LogAssignedPairs}
        /\ (\E i \in DOMAIN res.members : res.members[i].name = S_Unassigned) =>
               \E i \in DOMAIN outcomes : \E j \in DOMAIN outcomes[i].issues :
                   outcomes[i].issues[j].fields.assignee = Assignee(<<>>, <<>>)
        /\ \A i \in DOMAIN res.members : \A it \in DOMAIN res.members[i].capacity :
               res.members[i].capacity[it] <= LogPlanned(res.members[i].name, it)

\* only an issue without assignee was returned, and the report has no member
C6_Witness ==
    /\ Reported /\ Len(outcomes) = 2
    /\ outcomes[1].issues = <<Issue3>>
    /\ res.members = <<>>

\* C7 as stated: the report's iterations are exactly the iteration names for
\* which the Prober recorded a returned issue.
C7_AsStated ==
    Reported => Range(res.iterations) = LogObservedIterations

\* C7 amended: the report's iterations are exactly the iteration names for
\* which a returned issue has an assignee, each listed once.
C7_IterationsOfAssigned ==
    Reported =>
        /\ Range(res.iterations) = LogAssignedIterations
        /\ Len(res.iterations) = Cardinality(LogAssignedIterations)
        /\ LogAssignedIterations \subseteq iterationsFound
        /\ iterationsFound = LogObservedIterations

\* an iteration with assigned issues is listed, one without is not
C7_Witness ==
    /\ Reported /\ Len(res.iterations) >= 1
    /\ Range(res.iterations) # iterationsFound

\* C9: when no candidate file exists, or the one found cannot be read, the
\* report is still complete (pi, iterations, members) with baselineCapacity
\* null.
C9_BaselineAbsenceHarmless ==
    ( /\ Finished /\ LastOutcome \notin {"throw", "notok_badbody"}
      /\ \/ \A i \in 1..3 : PossibleFilenames(pi)[i] \notin DOMAIN files
         \/ \E i \in 1..3 :
               /\ PossibleFilenames(pi)[i] \in DOMAIN files
               /\ files[PossibleFilenames(pi)[i]].kind = "corrupt"
               /\ \A j \in 1..(i - 1) : PossibleFilenames(pi)[j] \notin DOMAIN files )
    => /\ res.status = 200
       /\ res.pi = pi
       /\ res.baselineCapacity = NoBaseline
       /\ Range(res.iterations) = LogAssignedIterations
       /\ PlannedMatchesLog

\* the canonical file is unreadable and the report carries planned work
C9_Witness ==
    /\ Reported
    /\ NewFileName(pi) \in DOMAIN files /\ files[NewFileName(pi)] = Corrupt
    /\ res.baselineCapacity = NoBaseline /\ Len(res.members) >= 1

----------------------------------------------------------------------------
(* Properties of the merged report, checked under Spec *)

S_PI_CAPA_2026_04_xlsx ==
    <<"P", "I", "_", "C", "A", "P", "A", "_", "2", "0", "2", "6", "_", "0", "4",
      ".", "x", "l", "s", "x">>

\* the entries of member m in the merged report, <<>> when m is not in it
MergedEntries(m) ==
    LET hits == {i \in DOMAIN merged.members : merged.members[i].name = m}
    IN  IF hits = {} THEN <<>> ELSE merged.members[CHOOSE i \in hits : TRUE].entries

\* no file exists under any of the names tried for the report's PI
NoSpreadsheet == \A i \in DOMAIN PossibleFilenames(pi) : PossibleFilenames(pi)[i] \notin DOMAIN files

\* the response's baseline has no value for (m, it)
NoBaselineValue(m, it) ==
    \/ res.baselineCapacity.isNull
    \/ m \notin Range(res.baselineCapacity.members)
    \/ it \notin DOMAIN res.baselineCapacity.capacity[m]

C12_WitnessNoSpreadsheet ==
    /\ merged.done /\ NoSpreadsheet
    /\ <<S_Bob, SprintName(pi, 1)>> \in LogAssignedPairs
    /\ MergedEntries(S_Bob)[SprintName(pi, 1)].baseline = 288000

----------------------------------------------------------------------------
(* Properties of the classification, checked under SpecClassify *)

S_26_04_01 == <<"2", "6", "_", "0", "4", "_", "0", "1">>

\* the seconds the directory's worksheet declares for Alice in 26_04_01,
\* 288000 where it declares none
DeclaredOrDefault ==
    LET name == S_PI_CAPA_2026_04_xlsx
    IN  IF name \notin DOMAIN files THEN 288000
        ELSE IF files[name].data[1][5] # Str(S_Alice) THEN 288000
        ELSE files[name].data[2][5].n * 3600

\* the bands of planned P against baseline B
InRed(P, B) == IF B > 0 THEN 100 * P > 105 * B ELSE P > 0
InYellow(P, B) == B > 0 /\ P > B /\ 100 * P <= 105 * B
InNormal(P, B) == IF B > 0 THEN P <= B ELSE P = 0

\* C13: the entry of (Alice, 26_04_01) has the issue's estimate P as planned
\* and the declared or default seconds B as baseline, and its classification
\* is red for P/B > 1.05, yellow for 1.00 < P/B <= 1.05 and normal for
\* P/B <= 1.00 when B > 0 (28800/28800 normal, 29500/28800 yellow,
\* 30500/28800 red, 30240/28800 yellow), and for B = 0 red when P > 0 and
\* normal when P = 0; exactly one band applies.
C13_Bands ==
    merged.done =>
        LET P == outcomes[1].issues[1].fields.timeestimate.n
            B == DeclaredOrDefault
            entry == MergedEntries(S_Alice)[S_26_04_01]
            c == entry.classification
        IN  /\ entry.planned = P /\ entry.baseline = B
            /\ Cardinality({b \in {"red", "yellow", "normal"} :
                               \/ b = "red" /\ InRed(P, B)
                               \/ b = "yellow" /\ InYellow(P, B)
                               \/ b = "normal" /\ InNormal(P, B)}) = 1
            /\ c = "red" <=> InRed(P, B)
            /\ c = "yellow" <=> InYellow(P, B)
            /\ c = "normal" <=> InNormal(P, B)
            /\ (P = 28800 /\ B = 28800) => c = "normal"
            /\ (P = 29500 /\ B = 28800) => c = "yellow"
            /\ (P = 30500 /\ B = 28800) => c = "red"
            /\ (P = 30240 /\ B = 28800) => c = "yellow"
            /\ (P = 30241 /\ B = 28800) => c = "red"
            /\ (P = 1 /\ B = 0) => c = "red"
            /\ (P = 0 /\ B = 0) => c = "normal"

\* the ratio is exactly 1.05 against 8 declared hours, and the band is yellow
C13_Witness ==
    /\ merged.done
    /\ MergedEntries(S_Alice)[S_26_04_01].planned = 30240
    /\ MergedEntries(S_Alice)[S_26_04_01].baseline = 28800
    /\ MergedEntries(S_Alice)[S_26_04_01].classification = "yellow"

\* nothing is declared (0 hours) and one second is planned: over capacity
C13_WitnessZeroBaseline ==
    /\ merged.done
    /\ MergedEntries(S_Alice)[S_26_04_01].planned = 1
    /\ MergedEntries(S_Alice)[S_26_04_01].baseline = 0
    /\ MergedEntries(S_Alice)[S_26_04_01].classification = "red"

----------------------------------------------------------------------------
(* Properties of the iteration context, checked under SpecMarker *)

\* the column-0 cell of the iteration row of the worksheet read for the report
MarkerCell == files[FilePath(files, pi)].data[2][1].s

\* C14 as stated: when the iteration row's column-0 cell is PI20 or PI
\* followed by an iteration name n = <pi>_<NN> of the report's PI, the
\* baseline is keyed by exactly n.
C14_AsStated ==
    (Reported /\ ~res.baselineCapacity.isNull) =>
        \A k \in 1..MaxIterations :
            LET n == ExpectedName(pi, k)
            IN  (MarkerCell = <<"P", "I", "2", "0">> \o n \/ MarkerCell = <<"P", "I">> \o n) =>
                    DOMAIN res.baselineCapacity.capacity[S_Alice] = {n}

----------------------------------------------------------------------------
(* Properties of the baseline, checked under SpecLoader *)

\* the worksheet of the file the report of SpecLoader reads
LoadedData == files[NewFileName(S_26_04)].data

\* whether row i (1-based) sets the iteration context
IsMarkerRow(data, i) ==
    /\ Len(data[i]) > 0
    /\ Cell(data[i], 0).t = "str"
    /\ StartsWith(Cell(data[i], 0).s, S_PI)

\* the current iteration while row i is read, <<>> when none is set
ContextAt(data, i) ==
    LET marks == {j \in 1..i : IsMarkerRow(data, j)}
    IN  IF marks = {} THEN <<>>
        ELSE NormalizeIteration(
                 Cell(data[CHOOSE j \in marks : \A k \in marks : k <= j], 0).s)

\* the capacity rows under iteration it whose cell in column c is numeric
NumericCapaRows(data, c, it) ==
    { i \in DOMAIN data :
        /\ Len(data[i]) > 0
        /\ it # <<>> /\ ContextAt(data, i) = it
        /\ Cell(data[i], 1) = Str(S_CAPA)
        /\ Cell(data[i], c).t = "num" }

\* C8 as stated: a member named in row 0 at column c >= 4 gets, for each
\* capacity row under iteration it, 3600 times that row's cell in column c
\* when it is numeric and no entry otherwise, also when row 0 has blank
\* cells between the names.
C8_AsStated ==
    (Reported /\ ~res.baselineCapacity.isNull) =>
        LET data == LoadedData
            capacity == res.baselineCapacity.capacity
        IN  \A c \in 4..(Len(data[1]) - 1) :
                Cell(data[1], c).t = "str" =>
                    LET m == Cell(data[1], c).s
                    IN  /\ m \in DOMAIN capacity
                        /\ \A i \in DOMAIN data :
                              LET it == ContextAt(data, i)
                                  rows == NumericCapaRows(data, c, it)
                              IN  IF rows = {} THEN it \notin DOMAIN capacity[m]
                                  ELSE /\ it \in DOMAIN capacity[m]
                                       /\ capacity[m][it] =
                                            3600 * Cell(data[CHOOSE j \in rows :
                                                               \A k \in rows : k <= j], c).n

----------------------------------------------------------------------------
(* Properties of POST /api/capacity/upload, checked under SpecUpload *)

\* the request lacks the PI or the file, or the file's name does not end in .xlsx
InvalidUpload(r) ==
    \/ r.pi = <<>>
    \/ ~r.file.present
    \/ Len(r.file.originalname) < 5
    \/ SubSeq(r.file.originalname, Len(r.file.originalname) - 4,
              Len(r.file.originalname)) # S_xlsx

\* C10 as stated: an invalid upload is answered with a client error, the
\* directory is as the request found it, and the request's temp file is gone.
C10_AsStated ==
    \A u \in Uploads :
        (up[u].pc = "done" /\ InvalidUpload(up[u])) =>
            /\ up[u].status = 400
            /\ files = up[u].before
            /\ up[u].file.present => TempName(up[u].file.originalname) \notin DOMAIN files

----------------------------------------------------------------------------
(* Properties of the stored baselines, checked under SpecStore *)

\* the accepted uploads for PI p, as indexes of the log
AcceptedFor(p) == {i \in DOMAIN uplog : uplog[i].status = 200 /\ uplog[i].pi = p}

\* the file part of the most recent accepted upload for p
LatestUploadFor(p) ==
    uplog[CHOOSE i \in AcceptedFor(p) : \A j \in AcceptedFor(p) : j <= i].file

\* what a reader of a workbook's first sheet gets as baseline
BaselineOf(content) ==
    IF content.kind = "sheet" THEN ParseSheet(content.data) ELSE NoBaseline

\* each PI with an accepted upload has its most recent one under PI_CAPA_20<p>.xlsx
StoredIsLatest ==
    \A p \in StorePIs :
        AcceptedFor(p) # {} =>
            LET name == S_PI_CAPA_ \o <<"2", "0">> \o p \o S_xlsx
            IN  /\ name \in DOMAIN files
                /\ files[name] = LatestUploadFor(p).content
                /\ \A i \in AcceptedFor(p) : uplog[i].filename = name
                /\ p = S_26_04 => name = S_PI_CAPA_2026_04_xlsx

\* C11: after accepted uploads for a PI p the file is stored as
\* PI_CAPA_20<p>.xlsx (PI_CAPA_2026_04.xlsx for 26_04) with the content of the
\* most recent of them, and a report for p sent after them has the baseline
\* of that content, whichever files exist under the other names tried for p.
C11_LatestUploadWins ==
    [][ /\ StoredIsLatest'
        /\ (rpc = "probing" /\ rpc' = "done" /\ AcceptedFor(pi) # {}) =>
               /\ res'.status = 200
               /\ res'.baselineCapacity = BaselineOf(LatestUploadFor(pi).content) ]_vars

\* two uploads for 26_04 were accepted, SheetA then SheetB, files exist under
\* the other two names tried for 26_04, and the report has SheetB's baseline
C11_Witness ==
    /\ Reported /\ pi = S_26_04
    /\ Len(uplog) = 3
    /\ uplog[1].pi = S_26_04 /\ uplog[1].status = 200 /\ uplog[1].file.content = SheetA
    /\ uplog[2].pi = S_2604 /\ uplog[2].status = 200 /\ uplog[2].file.content = SheetA
    /\ uplog[3].pi = S_26_04 /\ uplog[3].status = 200 /\ uplog[3].file.content = SheetB
    /\ (S_PI_CAPA_ \o S_26_04 \o S_xlsx) \in DOMAIN files
    /\ (S_PI_CAPA_ \o S_20 \o S_2604 \o S_xlsx) \in DOMAIN files
    /\ res.baselineCapacity = ParseSheet(SheetB.data)
    /\ res.baselineCapacity # ParseSheet(SheetA.data)
    /\ res.baselineCapacity # ParseSheet(SheetC.data)

\* the file a report for p is read from, <<>> when there is none
FileReadFor(p) == FilePath(files, p)

\* C15 as stated: for distinct PIs p and q, a report for p never reads a file
\* stored by an accepted upload for q: none of the names tried for p is the
\* name PI_CAPA_20<q>.xlsx an upload for q was stored under.
C15_AsStated ==
    \A p \in StorePIs :
        \A i \in DOMAIN uplog :
            (uplog[i].status = 200 /\ uplog[i].pi # p) =>
                /\ FileReadFor(p) # uplog[i].filename
                /\ uplog[i].filename \notin Range(PossibleFilenames(p))

----------------------------------------------------------------------------
(* Properties of uploads in flight together, checked under SpecConcurrent *)

\* C16 as stated: each of two valid upload requests for different PIs
\* succeeds, and the file under each PI's canonical name holds the content
\* uploaded in the request for that PI, also when both files have the same
\* original name.
C16_AsStated ==
    \A u \in Uploads :
        up[u].pc = "done" =>
            /\ up[u].status = 200
            /\ (S_PI_CAPA_ \o <<"2", "0">> \o up[u].pi \o S_xlsx) \in DOMAIN files
            /\ files[S_PI_CAPA_ \o <<"2", "0">> \o up[u].pi \o S_xlsx] = up[u].file.content

\* the same for two requests whose files have different original names
C16_DifferentNames ==
    (up[1].pc # "idle" /\ up[2].pc # "idle"
        /\ up[1].file.originalname # up[2].file.originalname) => C16_AsStated

====
